---- MODULE Spec2Model ----
(***************************************************************************)
(* The upload-then-poll handshake of app.py: main hands the captured or    *)
(* uploaded bytes to process_image, which validates them, generates a key, *)
(* uploads with upload_to_s3 (bounded retries) and waits for the labelled  *)
(* object with poll_for_result (bounded, fixed-interval polling).  The     *)
(* object store and the external inference worker are the environment.    *)
(***************************************************************************)
EXTENDS Integers, Sequences, FiniteSets, TLC

(* ---------------------------------------------------------------- CONFIG *)
UNLABELLED_PREFIX == "image/unlabelled/"
LABELLED_PREFIX == "image/labelled/"
MAX_POLLING_ATTEMPTS == 30
POLLING_INTERVAL == 2
MAX_RETRIES == 3
MAX_FILE_SIZE_MB == 10
UPLOAD_RETRY_WAIT == 1

(* Number of times main hands an image to process_image in one behaviour. *)
MaxRuns == 2

(* ------------------------------------------------------------ the inputs *)
(* Values uuid.uuid4() may return (two sample version-4 UUIDs). *)
Ids == {"3f2b8c1e-9a4d-4e6f-8b7a-1c2d3e4f5a6b", "7d9e0f1a-2b3c-4d5e-9f6a-0b1c2d3e4f5a"}

(* The bytes given to process_image, by what validate_image reads of them: *)
(* their length, and whether PIL can open and verify them.                  *)
Inputs ==
    { [size |-> 2048, kind |-> "image"],
      [size |-> 10485760, kind |-> "image"],
      [size |-> 10485761, kind |-> "image"],
      [size |-> 2048, kind |-> "unidentified"],
      [size |-> 2048, kind |-> "broken"] }

(* Status codes requests.post may answer with. *)
StatusCodes == {204, 200, 403, 500}

NoneVal == [tag |-> "None"]
ImageVal == [tag |-> "Image"]

(* ------------------------------------------------------- pure functions *)
(* validate_image: <<is_valid, message>>.  The text of the PIL exception    *)
(* after "Invalid image file: " stands for str(e).                          *)
validate_image(data) ==
    IF data.size > MAX_FILE_SIZE_MB * 1024 * 1024
    THEN <<FALSE, "File size exceeds " \o ToString(MAX_FILE_SIZE_MB) \o "MB limit">>
    ELSE IF data.kind = "unidentified"
    THEN <<FALSE, "Invalid image file: " \o "cannot identify image file">>
    ELSE IF data.kind = "broken"
    THEN <<FALSE, "Invalid image file: " \o "broken data stream when reading image file">>
    ELSE <<TRUE, "Valid image">>

ImageKey(id) == UNLABELLED_PREFIX \o id \o ".jpg"
LabelledImageKey(id) == LABELLED_PREFIX \o id \o ".jpg"

AllKeys == {ImageKey(i) : i \in Ids} \cup {LabelledImageKey(i) : i \in Ids}

(* range(MAX_RETRIES): is there an iteration after iteration a? *)
UploadLoopHasNext(a) == a + 1 < MAX_RETRIES

(* A loop bound that is one too large. *)
PollLoopHasNext_OffByOne(a) == a + 1 <= MAX_POLLING_ATTEMPTS

(* range(MAX_POLLING_ATTEMPTS): is there an iteration after iteration a? *)
PollLoopHasNext(a) == a + 1 < MAX_POLLING_ATTEMPTS

(* elapsed_time shown in the progress message of attempt a. *)
ElapsedTime(a) == (a + 1) * POLLING_INTERVAL

(* The Settings panel's "Max Wait Time". *)
MaxWaitTime == MAX_POLLING_ATTEMPTS * POLLING_INTERVAL

(* analyze_detection_result: the placeholder metrics. *)
analyze_detection_result(image, key) ==
    [tag |-> "Dict", image_key |-> key, status |-> "PASS",
     screws_detected |-> 12, expected_screws |-> 12,
     white_screws |-> 8, green_screws |-> 4,
     missing_screws |-> 0, defects_found |-> 0]

(* Trace events of one call: a request to the store, or a time.sleep. *)
Ev(e, k, s) == [ev |-> e, key |-> k, secs |-> s]

RECURSIVE TotalSlept(_)
TotalSlept(tr) ==
    IF tr = <<>> THEN 0
    ELSE (IF tr[1].ev = "sleep" THEN tr[1].secs ELSE 0) + TotalSlept(Tail(tr))

Count(tr, e) == Cardinality({i \in 1..Len(tr) : tr[i].ev = e})

(* ------------------------------------------------------------- the state *)
VARIABLES
    pc,                  \* where the program is
    run,                 \* calls of process_image started so far
    image_data,          \* argument of process_image
    unique_id, image_key, labelled_image_key,      \* locals of process_image
    up_attempt, response, status_code, upTrace,    \* upload_to_s3: loop index, presigned POST, r.status_code, events
    upload_success, upload_msg,                    \* what upload_to_s3 returned
    attempt, elapsed_time, file_content, pollTrace, \* poll_for_result
    sawPresent, sawOther,                          \* poll_for_result: what its attempts met
    processed_image, poll_msg,                     \* what poll_for_result returned
    result,                                        \* what process_image returned
    ui,                                            \* what main shows
    store,                                         \* the bucket: key -> content
    requests                                       \* every request sent to the store

vars == <<pc, run, image_data, unique_id, image_key, labelled_image_key,
          up_attempt, response, status_code, upTrace, upload_success, upload_msg,
          attempt, elapsed_time, file_content, pollTrace, sawPresent, sawOther,
          processed_image, poll_msg, result, ui, store, requests>>

procVars == <<unique_id, image_key, labelled_image_key>>
upVars == <<up_attempt, response, status_code, upTrace, upload_success, upload_msg>>
pollVars == <<attempt, elapsed_time, file_content, pollTrace, sawPresent, sawOther,
              processed_image, poll_msg>>

NoResult == [success |-> FALSE, processed_image |-> NoneVal,
             detection_results |-> NoneVal, message |-> ""]

Init ==
    /\ pc = "idle"
    /\ run = 0
    /\ image_data = NoneVal
    /\ unique_id = "" /\ image_key = "" /\ labelled_image_key = ""
    /\ up_attempt = 0 /\ response = NoneVal /\ status_code = 0 /\ upTrace = <<>>
    /\ upload_success = FALSE /\ upload_msg = ""
    /\ attempt = 0 /\ elapsed_time = 0 /\ file_content = "" /\ pollTrace = <<>>
    /\ sawPresent = FALSE /\ sawOther = FALSE
    /\ processed_image = NoneVal /\ poll_msg = ""
    /\ result = NoResult
    /\ ui = "welcome"
    /\ store = [k \in AllKeys |-> "absent"]
    /\ requests = {}

(* ------------------------------------------------------------------ main *)
(* main: a picture was taken or a file uploaded; process_image is called. *)
MainSubmit ==
    /\ pc = "idle"
    /\ run < MaxRuns
    /\ \E d \in Inputs : image_data' = d
    /\ run' = run + 1
    /\ pc' = "validate"
    /\ unique_id' = "" /\ image_key' = "" /\ labelled_image_key' = ""
    /\ up_attempt' = 0 /\ response' = NoneVal /\ status_code' = 0 /\ upTrace' = <<>>
    /\ upload_success' = FALSE /\ upload_msg' = ""
    /\ attempt' = 0 /\ elapsed_time' = 0 /\ file_content' = "" /\ pollTrace' = <<>>
    /\ sawPresent' = FALSE /\ sawOther' = FALSE
    /\ processed_image' = NoneVal /\ poll_msg' = ""
    /\ result' = NoResult
    /\ ui' = "processing"
    /\ UNCHANGED <<store, requests>>

(* main: display_results on success, st.error(message) otherwise. *)
MainShow ==
    /\ pc = "returned"
    /\ ui' = IF result.success THEN "results" ELSE "error: " \o result.message
    /\ pc' = "idle"
    /\ UNCHANGED <<run, image_data, procVars, upVars, pollVars, result, store, requests>>

(* --------------------------------------------------------- process_image *)
(* process_image without the early return: the verdict is computed and     *)
(* not acted on.                                                           *)
ProcessValidate_IgnoresVerdict ==
    /\ pc = "validate"
    /\ pc' = "genkey"
    /\ UNCHANGED <<run, image_data, procVars, upVars, pollVars, result, ui, store, requests>>

(* validate_image and the early return on an invalid image. *)
ProcessValidate ==
    /\ pc = "validate"
    /\ LET v == validate_image(image_data) IN
         IF ~v[1]
         THEN /\ result' = [success |-> FALSE, processed_image |-> NoneVal,
                            detection_results |-> NoneVal, message |-> v[2]]
              /\ pc' = "returned"
         ELSE /\ pc' = "genkey"
              /\ UNCHANGED result
    /\ UNCHANGED <<run, image_data, procVars, upVars, pollVars, ui, store, requests>>

(* The labelled key built from a second uuid4() instead of unique_id. *)
GenerateKey_TwoUuids ==
    /\ pc = "genkey"
    /\ \E id \in Ids, id2 \in Ids :
         /\ unique_id' = id
         /\ image_key' = ImageKey(id)
         /\ labelled_image_key' = LabelledImageKey(id2)
    /\ up_attempt' = 0
    /\ pc' = "up_presign"
    /\ UNCHANGED <<run, image_data, response, status_code, upTrace, upload_success,
                   upload_msg, pollVars, result, ui, store, requests>>

(* uuid4, the two keys, and the call of upload_to_s3. *)
GenerateKey ==
    /\ pc = "genkey"
    /\ \E id \in Ids :
         /\ unique_id' = id
         /\ image_key' = ImageKey(id)
         /\ labelled_image_key' = LabelledImageKey(id)
    /\ up_attempt' = 0
    /\ pc' = "up_presign"
    /\ UNCHANGED <<run, image_data, response, status_code, upTrace, upload_success,
                   upload_msg, pollVars, result, ui, store, requests>>

(* ---------------------------------------------------------- upload_to_s3 *)
(* End of iteration up_attempt without a return: the next one, or the      *)
(* function's final return.                                                *)
UploadContinue ==
    IF UploadLoopHasNext(up_attempt)
    THEN /\ up_attempt' = up_attempt + 1
         /\ pc' = "up_presign"
         /\ UNCHANGED <<upload_success, upload_msg>>
    ELSE /\ upload_success' = FALSE
         /\ upload_msg' = "Failed to upload image after multiple attempts"
         /\ pc' = "after_upload"
         /\ UNCHANGED up_attempt

(* generate_presigned_post for image_key: a response, or an exception,     *)
(* which assigns nothing: response keeps what an earlier attempt left.     *)
UploadPresign ==
    /\ pc = "up_presign"
    /\ upTrace' = Append(upTrace, Ev("presign", image_key, 0))
    /\ requests' = requests \cup {[id |-> unique_id, op |-> "presign", key |-> image_key]}
    /\ \/ /\ response' = [tag |-> "Presigned", key |-> image_key]
          /\ pc' = "up_post"
       \/ /\ pc' = "up_except"
          /\ UNCHANGED response
    /\ UNCHANGED <<run, image_data, procVars, up_attempt, status_code, upload_success,
                   upload_msg, pollVars, result, ui, store>>

(* The status test written as "any 2xx" (r.ok) instead of "== 204". *)
UploadPost_AcceptsAny2xx ==
    /\ pc = "up_post"
    /\ upTrace' = Append(upTrace, Ev("post", response.key, 0))
    /\ requests' = requests \cup {[id |-> unique_id, op |-> "post", key |-> response.key]}
    /\ \/ \E code \in StatusCodes :
            /\ status_code' = code
            /\ IF code \in 200..299
               THEN /\ store' = [store EXCEPT ![response.key] = "image"]
                    /\ upload_success' = TRUE
                    /\ upload_msg' = "Upload successful"
                    /\ pc' = "after_upload"
                    /\ UNCHANGED up_attempt
               ELSE /\ UploadContinue
                    /\ UNCHANGED store
       \/ /\ pc' = "up_except"
          /\ UNCHANGED <<store, up_attempt, status_code, upload_success, upload_msg>>
    /\ UNCHANGED <<run, image_data, procVars, response, pollVars, result, ui>>

(* requests.post with the presigned fields: 204 returns success, another   *)
(* status goes to the next iteration, an exception to the handler.         *)
UploadPost ==
    /\ pc = "up_post"
    /\ upTrace' = Append(upTrace, Ev("post", response.key, 0))
    /\ requests' = requests \cup {[id |-> unique_id, op |-> "post", key |-> response.key]}
    /\ \/ \E code \in StatusCodes :
            /\ status_code' = code
            /\ IF code = 204
               THEN /\ store' = [store EXCEPT ![response.key] = "image"]
                    /\ upload_success' = TRUE
                    /\ upload_msg' = "Upload successful"
                    /\ pc' = "after_upload"
                    /\ UNCHANGED up_attempt
               ELSE /\ UploadContinue
                    /\ UNCHANGED store
       \/ /\ pc' = "up_except"
          /\ UNCHANGED <<store, up_attempt, status_code, upload_success, upload_msg>>
    /\ UNCHANGED <<run, image_data, procVars, response, pollVars, result, ui>>

(* except Exception: log, sleep one second unless this was the last        *)
(* iteration, then go on with the loop.                                    *)
UploadExcept ==
    /\ pc = "up_except"
    /\ upTrace' = IF up_attempt < MAX_RETRIES - 1
                  THEN Append(upTrace, Ev("sleep", "", UPLOAD_RETRY_WAIT))
                  ELSE upTrace
    /\ UploadContinue
    /\ UNCHANGED <<run, image_data, procVars, response, status_code, pollVars, result, ui,
                   store, requests>>

(* process_image after upload_to_s3 returned: return its message on        *)
(* failure, call poll_for_result otherwise.                                *)
ProcessAfterUpload ==
    /\ pc = "after_upload"
    /\ IF ~upload_success
       THEN /\ result' = [success |-> FALSE, processed_image |-> NoneVal,
                          detection_results |-> NoneVal, message |-> upload_msg]
            /\ pc' = "returned"
       ELSE /\ pc' = "poll_show"
            /\ UNCHANGED result
    /\ attempt' = 0
    /\ up_attempt' = 0 /\ response' = NoneVal /\ status_code' = 0 /\ upTrace' = <<>>
    /\ UNCHANGED <<run, image_data, procVars, upload_success, upload_msg,
                   elapsed_time, file_content, pollTrace, sawPresent, sawOther,
                   processed_image, poll_msg, ui, store, requests>>

(* ------------------------------------------------------- poll_for_result *)
(* End of iteration attempt after a failed fetch and its sleep.            *)
PollContinue ==
    IF PollLoopHasNext(attempt)
    THEN /\ attempt' = attempt + 1
         /\ pc' = "poll_show"
         /\ UNCHANGED <<processed_image, poll_msg>>
    ELSE /\ processed_image' = NoneVal
         /\ poll_msg' = "Timeout waiting for results"
         /\ pc' = "after_poll"
         /\ UNCHANGED attempt

(* The progress bar and the "elapsed" message of this attempt. *)
PollShow ==
    /\ pc = "poll_show"
    /\ elapsed_time' = ElapsedTime(attempt)
    /\ pc' = "poll_get"
    /\ UNCHANGED <<run, image_data, procVars, upVars, attempt, file_content, pollTrace,
                   sawPresent, sawOther, processed_image, poll_msg, result, ui, store,
                   requests>>

(* get_object for labelled_image_key: the body, NoSuchKey when there is no *)
(* object, or any other error of the store or the network.                 *)
PollGet ==
    /\ pc = "poll_get"
    /\ pollTrace' = Append(pollTrace, Ev("get", labelled_image_key, 0))
    /\ requests' = requests \cup {[id |-> unique_id, op |-> "get", key |-> labelled_image_key]}
    /\ sawPresent' = (sawPresent \/ store[labelled_image_key] # "absent")
    /\ \/ /\ store[labelled_image_key] # "absent"
          /\ file_content' = store[labelled_image_key]
          /\ pc' = "poll_open"
          /\ UNCHANGED sawOther
       \/ /\ store[labelled_image_key] = "absent"
          /\ pc' = "poll_nosuchkey"
          /\ UNCHANGED <<file_content, sawOther>>
       \/ /\ pc' = "poll_except"
          /\ sawOther' = TRUE
          /\ UNCHANGED file_content
    /\ UNCHANGED <<run, image_data, procVars, upVars, attempt, elapsed_time,
                   processed_image, poll_msg, result, ui, store>>

(* The result assigned instead of returned: the loop goes on after a       *)
(* successful fetch.                                                       *)
PollOpen_NoReturn ==
    /\ pc = "poll_open"
    /\ IF file_content = "image"
       THEN /\ processed_image' = ImageVal
            /\ poll_msg' = "Success"
            /\ IF PollLoopHasNext(attempt)
               THEN attempt' = attempt + 1 /\ pc' = "poll_show"
               ELSE attempt' = attempt /\ pc' = "after_poll"
            /\ UNCHANGED sawOther
       ELSE /\ pc' = "poll_except"
            /\ sawOther' = TRUE
            /\ UNCHANGED <<attempt, processed_image, poll_msg>>
    /\ UNCHANGED <<run, image_data, procVars, upVars, elapsed_time, file_content,
                   pollTrace, sawPresent, result, ui, store, requests>>

(* Image.open of the fetched body: return (image, "Success"), or the       *)
(* exception of a body that is no image.                                   *)
PollOpen ==
    /\ pc = "poll_open"
    /\ IF file_content = "image"
       THEN /\ processed_image' = ImageVal
            /\ poll_msg' = "Success"
            /\ pc' = "after_poll"
            /\ UNCHANGED sawOther
       ELSE /\ pc' = "poll_except"
            /\ sawOther' = TRUE
            /\ UNCHANGED <<processed_image, poll_msg>>
    /\ UNCHANGED <<run, image_data, procVars, upVars, attempt, elapsed_time, file_content,
                   pollTrace, sawPresent, result, ui, store, requests>>

(* except NoSuchKey: sleep POLLING_INTERVAL, go on with the loop. *)
PollNoSuchKey ==
    /\ pc = "poll_nosuchkey"
    /\ pollTrace' = Append(pollTrace, Ev("sleep", "", POLLING_INTERVAL))
    /\ PollContinue
    /\ UNCHANGED <<run, image_data, procVars, upVars, elapsed_time, file_content,
                   sawPresent, sawOther, result, ui, store, requests>>

(* The generic handler without its sleep. *)
PollExcept_NoSleep ==
    /\ pc = "poll_except"
    /\ PollContinue
    /\ UNCHANGED <<run, image_data, procVars, upVars, elapsed_time, file_content,
                   pollTrace, sawPresent, sawOther, result, ui, store, requests>>

(* The generic handler reporting the error instead of polling on. *)
PollExcept_Abort ==
    /\ pc = "poll_except"
    /\ processed_image' = NoneVal
    /\ poll_msg' = "Error polling for result"
    /\ pc' = "after_poll"
    /\ UNCHANGED <<run, image_data, procVars, upVars, attempt, elapsed_time, file_content,
                   pollTrace, sawPresent, sawOther, result, ui, store, requests>>

(* except Exception: log, sleep POLLING_INTERVAL, go on with the loop. *)
PollExcept ==
    /\ pc = "poll_except"
    /\ pollTrace' = Append(pollTrace, Ev("sleep", "", POLLING_INTERVAL))
    /\ PollContinue
    /\ UNCHANGED <<run, image_data, procVars, upVars, elapsed_time, file_content,
                   sawPresent, sawOther, result, ui, store, requests>>

(* process_image without the "processed_image is None" return. *)
ProcessAfterPoll_NoNoneCheck ==
    /\ pc = "after_poll"
    /\ result' = [success |-> TRUE, processed_image |-> processed_image,
                  detection_results |->
                      analyze_detection_result(processed_image, image_key),
                  message |-> "Processing complete"]
    /\ pc' = "returned"
    /\ UNCHANGED <<run, image_data, procVars, upVars, pollVars, ui, store, requests>>

(* process_image after poll_for_result returned: the poll message on None, *)
(* the analysed result otherwise.                                          *)
ProcessAfterPoll ==
    /\ pc = "after_poll"
    /\ result' = IF processed_image = NoneVal
                 THEN [success |-> FALSE, processed_image |-> NoneVal,
                       detection_results |-> NoneVal, message |-> poll_msg]
                 ELSE [success |-> TRUE, processed_image |-> processed_image,
                       detection_results |->
                           analyze_detection_result(processed_image, image_key),
                       message |-> "Processing complete"]
    /\ pc' = "returned"
    /\ UNCHANGED <<run, image_data, procVars, upVars, pollVars, ui, store, requests>>

(* ------------------------------------------------------- the environment *)
(* The external inference worker: it leaves an object at the labelled key  *)
(* of an uploaded image, a labelled image or bytes that are no image.      *)
WorkerDeposit ==
    /\ \E id \in Ids, c \in {"image", "garbage"} :
         /\ store[ImageKey(id)] # "absent"
         /\ store[LabelledImageKey(id)] = "absent"
         /\ store' = [store EXCEPT ![LabelledImageKey(id)] = c]
    /\ UNCHANGED <<pc, run, image_data, procVars, upVars, pollVars, result, ui, requests>>

Next ==
    \/ MainSubmit
    \/ ProcessValidate
    \/ GenerateKey
    \/ UploadPresign
    \/ UploadPost
    \/ UploadExcept
    \/ ProcessAfterUpload
    \/ PollShow
    \/ PollGet
    \/ PollOpen
    \/ PollNoSuchKey
    \/ PollExcept
    \/ ProcessAfterPoll
    \/ MainShow
    \/ WorkerDeposit

Spec == Init /\ [][Next]_vars

(* The program is one thread that always takes its next step. *)
Program ==
    \/ ProcessValidate
    \/ GenerateKey
    \/ UploadPresign
    \/ UploadPost
    \/ UploadExcept
    \/ ProcessAfterUpload
    \/ PollShow
    \/ PollGet
    \/ PollOpen
    \/ PollNoSuchKey
    \/ PollExcept
    \/ ProcessAfterPoll
    \/ MainShow

FairSpec == Spec /\ WF_vars(Program)

(* ============================================================ the claims *)
UploadPcs == {"up_presign", "up_post", "up_except"}
PollPcs == {"poll_show", "poll_get", "poll_open", "poll_nosuchkey", "poll_except"}
AfterPollPcs == {"after_poll", "returned", "idle"}
TimeoutMsg == "Timeout waiting for results"
UploadFailedMsg == "Failed to upload image after multiple attempts"
IsValid == image_data # NoneVal /\ validate_image(image_data)[1]
Last(tr) == tr[Len(tr)]

(* C1: a call of poll_for_result issues at most MAX_POLLING_ATTEMPTS         *)
(* get_object requests, all for the labelled key; it returns None only as    *)
(* (None, "Timeout waiting for results") and only after exactly              *)
(* MAX_POLLING_ATTEMPTS attempts; and every call that has started returns.   *)
C1_PollBound ==
    /\ Count(pollTrace, "get") <= MAX_POLLING_ATTEMPTS
    /\ \A i \in 1..Len(pollTrace) :
         pollTrace[i].ev = "get" => pollTrace[i].key = labelled_image_key
    /\ pc \in PollPcs => attempt < MAX_POLLING_ATTEMPTS
    /\ (pc = "after_poll" /\ processed_image = NoneVal) =>
         /\ poll_msg = TimeoutMsg
         /\ Count(pollTrace, "get") = MAX_POLLING_ATTEMPTS
         /\ attempt = MAX_POLLING_ATTEMPTS - 1
    /\ (pc = "after_poll" /\ poll_msg = TimeoutMsg) => processed_image = NoneVal

(* C1: the bound above holds in every state, and a call of poll_for_result  *)
(* that has started always reaches its return.                             *)
C1_PollTerminatesBounded ==
    /\ []C1_PollBound
    /\ (pc \in PollPcs) ~> (pc = "after_poll")

C1_Witness ==
    /\ pc = "after_poll"
    /\ poll_msg = TimeoutMsg
    /\ Count(pollTrace, "get") = MAX_POLLING_ATTEMPTS

(* C2 as stated: once an object exists at the labelled key at an attempt,    *)
(* polling stops with Success; a timeout means the object was absent at      *)
(* every attempt.                                                            *)
C2_Original ==
    /\ sawPresent => pc \in {"poll_open"} \cup AfterPollPcs
    /\ (sawPresent /\ pc \in AfterPollPcs) => poll_msg = "Success"
    /\ poll_msg = TimeoutMsg => ~sawPresent

(* C2 amended: polling stops, with Success and no further request or sleep,  *)
(* at the first attempt whose get_object returns a body that opens as an     *)
(* image; while the loop runs nothing has been opened; the timeout result    *)
(* means that every one of the MAX_POLLING_ATTEMPTS attempts failed (object  *)
(* absent, another error, or a body that is no image) and was slept after.   *)
C2_StopsAtFirstOpenedImage ==
    /\ pc \in PollPcs => (processed_image = NoneVal /\ poll_msg = "")
    /\ processed_image # NoneVal =>
         /\ pc \in AfterPollPcs
         /\ poll_msg = "Success"
         /\ file_content = "image"
         /\ Last(pollTrace).ev = "get"
         /\ Count(pollTrace, "get") = Count(pollTrace, "sleep") + 1
         /\ Count(pollTrace, "get") = attempt + 1
    /\ poll_msg = TimeoutMsg =>
         /\ processed_image = NoneVal
         /\ Count(pollTrace, "get") = MAX_POLLING_ATTEMPTS
         /\ Count(pollTrace, "sleep") = MAX_POLLING_ATTEMPTS

C2_Witness ==
    /\ pc = "after_poll"
    /\ poll_msg = "Success"
    /\ sawOther
    /\ Count(pollTrace, "get") > 2

(* C3: upload_to_s3 returns after 1..MAX_RETRIES attempts; it returns        *)
(* (True, "Upload successful") exactly when the attempt just made was        *)
(* answered 204, no earlier attempt having been; it returns (False, "Failed  *)
(* to upload image after multiple attempts") only after MAX_RETRIES attempts.*)
C3_UploadAttempts ==
    /\ pc \in UploadPcs =>
         /\ status_code # 204
         /\ up_attempt < MAX_RETRIES
         /\ Count(upTrace, "presign") \in {up_attempt, up_attempt + 1}
    /\ Count(upTrace, "presign") <= MAX_RETRIES
    /\ Count(upTrace, "post") <= Count(upTrace, "presign")
    /\ pc = "after_upload" =>
         /\ Count(upTrace, "presign") >= 1
         /\ upload_success <=> status_code = 204
         /\ upload_success =>
              /\ upload_msg = "Upload successful"
              /\ Last(upTrace).ev = "post"
              /\ Count(upTrace, "presign") = up_attempt + 1
         /\ ~upload_success =>
              /\ upload_msg = UploadFailedMsg
              /\ Count(upTrace, "presign") = MAX_RETRIES

C3_Witness ==
    /\ pc = "after_upload"
    /\ upload_success
    /\ Count(upTrace, "post") = MAX_RETRIES

(* C4: every presigned-POST request and submission targets                   *)
(* UNLABELLED_PREFIX + id + ".jpg" and every get_object targets              *)
(* LABELLED_PREFIX + id + ".jpg", id being the one identifier of the run;    *)
(* each submission uses the presigned POST requested just before it; runs    *)
(* with different ids share no key.                                          *)
C4_OneIdPerRun ==
    /\ \A r \in requests :
         r.key = (IF r.op = "get" THEN LABELLED_PREFIX ELSE UNLABELLED_PREFIX)
                     \o r.id \o ".jpg"
    /\ \A i \in 1..Len(upTrace) :
         /\ upTrace[i].ev \in {"presign", "post"} =>
              upTrace[i].key = UNLABELLED_PREFIX \o unique_id \o ".jpg"
         /\ upTrace[i].ev = "post" => (i > 1 /\ upTrace[i - 1].ev = "presign")
    /\ \A i \in 1..Len(pollTrace) :
         pollTrace[i].ev = "get" =>
              pollTrace[i].key = LABELLED_PREFIX \o unique_id \o ".jpg"
    /\ \A a, b \in requests : a.id # b.id => a.key # b.key

C4_Witness ==
    /\ \E a, b \in requests : a.id # b.id /\ a.op = "get" /\ b.op = "get"
    /\ Count(pollTrace, "get") > 1

(* C5: nothing is requested for an image validate_image rejects; polling     *)
(* runs only after upload_to_s3 returned success on a 204; every upload      *)
(* request is made before the first get_object of the run.                   *)
C5_State ==
    /\ (run > 0 /\ ~IsValid) =>
         (upTrace = <<>> /\ pollTrace = <<>> /\ pc \in {"validate", "returned", "idle"})
    /\ (pc \in PollPcs \/ pollTrace # <<>>) =>
         /\ IsValid
         /\ upload_success
         /\ store[image_key] = "image"
         /\ upTrace = <<>>
    /\ pc \in UploadPcs => (IsValid /\ pollTrace = <<>>)

C5_Step ==
    /\ requests' # requests =>
         \E r \in requests' \ requests :
            /\ requests' = requests \cup {r}
            /\ r.op = "get" => (pc = "poll_get" /\ upload_success)
            /\ r.op # "get" => (pc \in UploadPcs /\ pollTrace = <<>> /\ IsValid)
    /\ Len(upTrace') > Len(upTrace) => (pc \in UploadPcs /\ pollTrace = <<>>)
    /\ (pc \in PollPcs \/ pc = "after_poll") => pc' \notin UploadPcs \cup {"genkey", "after_upload"}
    /\ pc = "validate" => pc' \in {"validate", "genkey", "returned"}
    /\ pc \in UploadPcs => pc' \in UploadPcs \cup {"after_upload"}
    /\ pc = "after_upload" => pc' \in {"after_upload", "poll_show", "returned"}

(* C5: the stages run in the order validate, upload, poll, each only after  *)
(* the previous one succeeded, in every state and at every step.            *)
C5_StagesInOrder == []C5_State /\ [][C5_Step]_vars

C5_Witness ==
    /\ pc = "returned"
    /\ ~IsValid
    /\ requests # {}

(* C6: process_image returns one of four outcomes, told apart by its         *)
(* message; success is True exactly when image and results are both there,   *)
(* and a failure carries neither; main shows the message of a failure.       *)
C6_Outcome(k) ==
    LET v == validate_image(image_data)
        failed(m) == /\ ~result.success
                     /\ result.processed_image = NoneVal
                     /\ result.detection_results = NoneVal
                     /\ result.message = m
    IN  CASE k = 1 -> failed(v[2]) /\ ~v[1] /\ upTrace = <<>> /\ pollTrace = <<>>
          [] k = 2 -> failed(UploadFailedMsg) /\ v[1] /\ ~upload_success /\ pollTrace = <<>>
          [] k = 3 -> failed(TimeoutMsg) /\ v[1] /\ upload_success /\ poll_msg = TimeoutMsg
          [] k = 4 -> /\ result.success
                      /\ result.message = "Processing complete"
                      /\ result.processed_image = ImageVal
                      /\ result.detection_results # NoneVal
                      /\ v[1] /\ upload_success /\ poll_msg = "Success"

(* C6: exactly one of the four outcomes holds once process_image returned;  *)
(* success iff image and results are both there.                            *)
C6_FourOutcomes ==
    /\ result.success <=>
         (result.processed_image # NoneVal /\ result.detection_results # NoneVal)
    /\ (pc \in {"returned", "idle"} /\ run > 0) =>
         Cardinality({k \in 1..4 : C6_Outcome(k)}) = 1
    /\ (pc = "idle" /\ run > 0) =>
         ui = IF result.success THEN "results" ELSE "error: " \o result.message

C6_Witness ==
    /\ pc = "idle"
    /\ ui = "error: " \o TimeoutMsg
    /\ result = [success |-> FALSE, processed_image |-> NoneVal,
                 detection_results |-> NoneVal, message |-> TimeoutMsg]

(* C7: in poll_for_result every sleep lasts POLLING_INTERVAL, and every      *)
(* get_object but the first comes right after exactly one sleep that came    *)
(* right after the previous get_object, whatever made that one fail.         *)
C7_OneFixedSleepBetweenFetches ==
    \A i \in 1..Len(pollTrace) :
       /\ pollTrace[i].ev = "sleep" => pollTrace[i].secs = POLLING_INTERVAL
       /\ (pollTrace[i].ev = "get" /\ i > 1) =>
            /\ pollTrace[i - 1].ev = "sleep"
            /\ i > 2
            /\ pollTrace[i - 2].ev = "get"

C7_Witness ==
    /\ pc = "poll_except"
    /\ sawOther
    /\ ~sawPresent
    /\ Count(pollTrace, "get") = MAX_POLLING_ATTEMPTS

(* C8 as stated: in upload_to_s3 every attempt but the first comes right     *)
(* after a one-second sleep, and no sleep follows the last attempt.          *)
C8_Original ==
    /\ \A i \in 1..Len(upTrace) :
         /\ upTrace[i].ev = "sleep" => upTrace[i].secs = UPLOAD_RETRY_WAIT
         /\ (upTrace[i].ev = "presign" /\ i > 1) => upTrace[i - 1].ev = "sleep"
    /\ (pc = "after_upload" /\ upTrace # <<>>) => Last(upTrace).ev # "sleep"

(* C9 as stated: a timed-out call slept MAX_POLLING_ATTEMPTS times, the      *)
(* advertised Max Wait Time in total, and the elapsed time shown at an       *)
(* attempt is the time slept so far in the call.                             *)
C9_Original ==
    /\ (pc = "after_poll" /\ poll_msg = TimeoutMsg) =>
         /\ Count(pollTrace, "sleep") = MAX_POLLING_ATTEMPTS
         /\ TotalSlept(pollTrace) = MaxWaitTime
    /\ pc = "poll_get" => elapsed_time = TotalSlept(pollTrace)

(* C10: an attempt that fails with an exception other than NoSuchKey is      *)
(* followed by one POLLING_INTERVAL sleep and the next attempt, or, after    *)
(* the last attempt, by (None, "Timeout waiting for results"): the call      *)
(* returns nothing else for a failure, and process_image passes that on.     *)
C10_State ==
    /\ poll_msg \in {"", "Success", TimeoutMsg}
    /\ (pc \in AfterPollPcs /\ sawOther /\ processed_image = NoneVal) =>
         poll_msg = TimeoutMsg
    /\ (pc \in {"returned", "idle"} /\ sawOther /\ ~result.success) =>
         result.message = TimeoutMsg

C10_Step ==
    (pc = "poll_except" /\ pc' # pc) =>
        /\ pollTrace' = Append(pollTrace, Ev("sleep", "", POLLING_INTERVAL))
        /\ IF attempt + 1 < MAX_POLLING_ATTEMPTS
           THEN pc' = "poll_show" /\ attempt' = attempt + 1 /\ poll_msg' = ""
           ELSE pc' = "after_poll" /\ poll_msg' = TimeoutMsg
        /\ processed_image' = NoneVal

(* C10: an error other than NoSuchKey is slept after and polled past, and   *)
(* ends as the timeout result when no later attempt succeeds.               *)
C10_OtherErrorsPollOn == []C10_State /\ [][C10_Step]_vars

C10_Witness ==
    /\ pc = "returned"
    /\ sawOther
    /\ sawPresent
    /\ result.message = TimeoutMsg


====
